---- MODULE Spec2Model ----
(***************************************************************************)
(* cloud-gox: the job queue (goxHandler.enqueue), the build worker         *)
(* (goxHandler.dequeue), the build pipeline (goxHandler.compile), the log  *)
(* drain (goxHandler.dequeueLogs) and the shared serverState they mutate.  *)
(*                                                                         *)
(* Processes: the constructor New ("main"), its async startup goroutine,   *)
(* one goroutine per HTTP request (net/http), the worker goroutines the    *)
(* startup sequence spawns, and the log drain.                             *)
(*                                                                         *)
(* Strings whose structure the code inspects (the "os/arch" entries) are   *)
(* sequences of tokens, so that concatenation and strings.SplitN are       *)
(* computed; decimal log keys are sequences of digits.                     *)
(***************************************************************************)
EXTENDS Integers, Sequences, FiniteSets, TLC

\* ------------------------------------------------------------- bounds
\* Number of HTTP compile requests the model lets arrive (each has a goroutine).
MaxRequests == 3
\* handler.go:29 sets maxQueue = 20; the model runs the same code with a
\* smaller channel capacity so that a full queue is reached.
maxQueue == 2
\* Capacity of the log ring buffer (the logger's source is not in src/).
maxLogSize == 2
\* Capacity of the logger's message channel (the logger's source is not in src/).
LogChanCap == 1
\* Failures of the environment (file system, go tool, git, random source) the
\* model lets happen in one run.
MaxFaults == 1

Jobs == 1..MaxRequests
Workers == 1..2

\* ------------------------------------------------------------- strings
Slash == "/"
linux == <<"linux">>
windows == <<"windows">>
amd64 == <<"amd64">>

\* os + "/" + arch  (handler.go:282)
JoinOSArch(os, arch) == os \o <<Slash>> \o arch

RECURSIVE IndexOf(_, _, _)
\* first position >= i of token sep in s, 0 when there is none
IndexOf(s, sep, i) ==
  IF i > Len(s) THEN 0
  ELSE IF s[i] = sep THEN i
  ELSE IndexOf(s, sep, i + 1)

\* strings.SplitN(s, sep, 2): at most two parts, split at the first sep
SplitN2(s, sep) ==
  LET k == IndexOf(s, sep, 1) IN
  IF k = 0 THEN <<s>>
  ELSE <<SubSeq(s, 1, k - 1), SubSeq(s, k + 1, Len(s))>>

Digit == <<"0", "1", "2", "3", "4", "5", "6", "7", "8", "9">>

RECURSIVE FormatInt(_)
\* strconv.FormatInt(n, 10) for n >= 0: the decimal digits, most significant first
FormatInt(n) ==
  IF n < 10 THEN <<Digit[n + 1]>>
  ELSE FormatInt(n \div 10) \o <<Digit[(n % 10) + 1]>>

\* all enumerations of a finite set without repetition
RECURSIVE Orders(_)
Orders(S) ==
  IF S = {} THEN {<<>>}
  ELSE UNION {{<<x>> \o r : r \in Orders(S \ {x})} : x \in S}

\* ------------------------------------------------------------- requests
NilPlatforms == [isNil |-> TRUE, cells |-> <<>>]
Matrix(m) == [isNil |-> FALSE, cells |-> m]

\* identities: unset, the constant of randomID, and the random tokens
NoID == <<"", 0>>
FallbackID == <<"000000000000", 0>>
Token(k) == <<"hex", k>>

\* the fields of Compilation the queue, the worker and the pipeline branch on
\* (json.Unmarshal fills every one of them from the request body), and the
\* route the request takes in ServeHTTP: "compile" (enqueueReq) or "hook"
Request(pkg, ver, plat, osarch, targets, commitish, get, gen, files, err, completed, id) ==
  [Package |-> pkg, Version |-> ver, Platforms |-> plat, OSArch |-> osarch,
   Targets |-> targets, Commitish |-> commitish, GoGet |-> get, GoGenerate |-> gen,
   Files |-> files, Error |-> err, Completed |-> completed, Queued |-> FALSE,
   ID |-> id, Releaser |-> "", Route |-> "compile"]

\* a request with no field set: c := &Compilation{}
EmptyCompilation ==
  Request(<<>>, "", NilPlatforms, <<>>, <<>>, "", FALSE, FALSE, <<>>, "", FALSE, NoID)

\* the package path "example/app"
ExampleApp == <<"example", Slash, "app">>

OneCell == linux :> ((amd64 :> TRUE) @@ (<<"386">> :> FALSE))
TwoCells == (linux :> (amd64 :> TRUE)) @@ (windows :> (amd64 :> TRUE))
NoCells == linux :> (amd64 :> FALSE)

\* the ordinary request: a platform matrix with one enabled cell
Ordinary ==
  Request(ExampleApp, "1.0.0", Matrix(OneCell), <<>>, <<>>, "", TRUE, FALSE,
          <<>>, "", FALSE, NoID)
\* a matrix with two enabled cells
TwoCellRequest ==
  Request(ExampleApp, "1.0.0", Matrix(TwoCells), <<>>, <<>>, "", TRUE, FALSE,
          <<>>, "", FALSE, NoID)
\* a pinned commit, two targets, a generate step, and the server's fields set
Pinned ==
  Request(ExampleApp, "1.0.0", NilPlatforms, <<JoinOSArch(linux, amd64)>>,
          <<".", "cmd">>, "abc123", FALSE, TRUE, <<<<"old.gz">>>>, "old", TRUE,
          <<"mine", 0>>)
\* the ordinary request sent with the server's fields of an earlier answer
Resubmitted ==
  [Request(ExampleApp, "1.0.0", Matrix(OneCell), <<>>, <<>>, "", TRUE, FALSE,
           <<<<"old.gz">>>>, "old", TRUE, <<"mine", 0>>) EXCEPT !.Releaser = "github"]
\* a job that the hook route hands to enqueue with a release host
Hooked == [TwoCellRequest EXCEPT !.Releaser = "github", !.Route = "hook"]
\* an OSArch list supplied directly, with an entry that has no "/"
Malformed ==
  Request(ExampleApp, "1.0.0", NilPlatforms, <<linux>>, <<>>, "", TRUE, FALSE,
          <<>>, "", FALSE, NoID)
NoPackage ==
  Request(<<>>, "", NilPlatforms, <<>>, <<>>, "", TRUE, FALSE, <<>>, "", FALSE, NoID)
NoVersion ==
  Request(ExampleApp, "", NilPlatforms, <<>>, <<>>, "", TRUE, FALSE, <<>>, "", FALSE, NoID)
\* a matrix without an enabled cell replaces the OSArch list of the request
NoEnabledCell ==
  Request(ExampleApp, "1.0.0", Matrix(NoCells), <<JoinOSArch(linux, amd64)>>,
          <<>>, "", TRUE, FALSE, <<>>, "", FALSE, NoID)
NoPlatform ==
  Request(ExampleApp, "1.0.0", NilPlatforms, <<>>, <<>>, "", TRUE, FALSE,
          <<>>, "", FALSE, NoID)

\* a run: the request bodies the clients send, in the order the requests
\* arrive, and the failures the environment has in store
Run(reqs, nfaults) == [inbox |-> reqs, faults |-> nfaults]

Runs ==
  { Run([i \in 1..MaxRequests |-> Ordinary], 0),
    Run(<<Pinned, Ordinary>>, MaxFaults),
    Run(<<TwoCellRequest, Malformed>>, MaxFaults),
    Run(<<Resubmitted>>, MaxFaults),
    Run(<<Hooked>>, MaxFaults),
    Run(<<NoPackage, NoVersion, Ordinary>>, MaxFaults),
    Run(<<NoEnabledCell, NoPlatform, Pinned>>, MaxFaults) }

\* ------------------------------------------------------------- state
VARIABLES
  Ready, NumQueued, NumDone, NumTotal, Compilations,   \* serverState
  LogOffset, LogCount, Log,                            \* serverState (log ring)
  lock,          \* serverState.Mutex: its holder
  q,             \* goxHandler.q: the buffered channel of jobs
  pushed,        \* the jobs sent on q so far, in the order of the sends
  jobs,          \* the Compilation objects, by request number
  inbox,         \* the request bodies of this run
  rpc, result,   \* each request goroutine: position, and what enqueue returned
  mpc, spc,      \* New, and its async startup goroutine
  wpc, wjob, wti, woi, werr,   \* worker goroutines and compile's locals
  wtried, wmade, \* cells this run of compile attempted, and artifacts it stored
  wfailed,       \* cells of this run of compile whose go build failed
  wrelease,      \* compile's once and rel, and what this run did with the release host
  dpc, dmsg,     \* the log drain and the message it holds
  count, messages,   \* Logger: messages written so far, and its channel
  processed,     \* messages the log drain has finished with
  faultsLeft,    \* failures the environment has left in this run
  crashed        \* a goroutine panicked: the process is gone

serverVars == <<Ready, NumQueued, NumDone, NumTotal, Compilations>>
logVars == <<LogOffset, LogCount, Log, processed>>
loggerVars == <<count, messages, dpc, dmsg>>
reqVars == <<inbox, rpc, result>>
workerVars == <<wpc, wjob, wti, woi, werr, wtried, wmade, wfailed, wrelease>>
vars == <<serverVars, logVars, loggerVars, reqVars, workerVars,
          lock, q, pushed, jobs, mpc, spc, faultsLeft, crashed>>

\* handler.go:105-109: the release hosts of the handler
releasers == {"github"}

\* handler_compile.go:31-33: no Setup done (once), no release (rel), and the
\* counts of this run: Setup calls, cells past build and read, cells dropped
\* after that, failed Setup and Upload calls
NoRelease == [once |-> FALSE, rel |-> FALSE, setups |-> 0, reached |-> 0,
              dropped |-> 0, failures |-> 0]

NoOne == <<"none", 0>>
StartupProc == <<"startup", 0>>
ReqProc(j) == <<"request", j>>
WorkerProc(w) == <<"worker", w>>
DrainProc == <<"drain", 0>>

\* an Unlock that leaves the lock with its holder
Unlock_Kept(holder) == holder

\* s.state.Unlock() by the goroutine holding the lock (handler.go:303,316,329,341,361)
Unlock(holder) == NoOne

\* ------------------------------------------------------------- New
\* handler.go:102-129: the handler as constructed, the log drain started
Init ==
  /\ Ready = FALSE /\ NumQueued = 0 /\ NumDone = 0 /\ NumTotal = 0
  /\ Compilations = <<>>
  /\ LogOffset = 1 /\ LogCount = 0 /\ Log = <<>>
  /\ lock = NoOne
  /\ q = <<>> /\ pushed = <<>>
  /\ jobs = [j \in Jobs |-> EmptyCompilation]
  /\ \E run \in Runs : inbox = run.inbox /\ faultsLeft = run.faults
  /\ rpc = [j \in Jobs |-> "new"]
  /\ result = [j \in Jobs |-> "pending"]
  /\ mpc = "started" /\ spc = "off"
  /\ wpc = [w \in Workers |-> "off"]
  /\ wjob = [w \in Workers |-> 0]
  /\ wti = [w \in Workers |-> 0]
  /\ woi = [w \in Workers |-> 0]
  /\ werr = [w \in Workers |-> ""]
  /\ wtried = [w \in Workers |-> 0]
  /\ wmade = [w \in Workers |-> 0]
  /\ wfailed = [w \in Workers |-> 0]
  /\ wrelease = [w \in Workers |-> NoRelease]
  /\ dpc = "recv" /\ dmsg = 0
  /\ count = 0 /\ messages = <<>>
  /\ processed = 0
  /\ crashed = FALSE

\* ------------------------------------------------------------- Logger
\* goxHandler.Printf -> Logger.Write: number the message and send it on the
\* logger's channel; the call blocks until the drain takes the message or the
\* channel buffers it.
Printf ==
  /\ count' = count + 1
  /\ \/ /\ dpc = "recv" /\ messages = <<>>
        /\ dmsg' = count + 1 /\ dpc' = "lock"
        /\ UNCHANGED messages
     \/ /\ Len(messages) < LogChanCap
        /\ messages' = Append(messages, count + 1)
        /\ UNCHANGED <<dpc, dmsg>>

\* handler.go:130-155: the constructor logs its start-up messages
NewPrintf ==
  /\ ~crashed /\ mpc \in {"started", "auth"}
  /\ Printf
  /\ mpc' = IF mpc = "started" THEN "auth" ELSE "go"
  /\ UNCHANGED <<serverVars, logVars, reqVars, workerVars, lock, q, pushed, jobs, spc, faultsLeft,
                 crashed>>

\* handler.go:157-166: the async startup sequence is spawned and the handler
\* returned (requests are served from then on)
NewReturn ==
  /\ ~crashed /\ mpc = "go"
  /\ mpc' = "serving" /\ spc' = "ready"
  /\ UNCHANGED <<serverVars, logVars, loggerVars, reqVars, workerVars, lock, q, pushed, jobs,
                 faultsLeft, crashed>>

\* handler.go:160: s.state.Ready = true
StartupReady ==
  /\ ~crashed /\ spc = "ready"
  /\ Ready' = TRUE
  /\ spc' = "push"
  /\ UNCHANGED <<NumQueued, NumDone, NumTotal, Compilations, logVars, loggerVars,
                 reqVars, workerVars, lock, q, pushed, jobs, mpc, faultsLeft, crashed>>

\* handler.go:161: s.state.Push()
StartupPush ==
  /\ ~crashed /\ spc = "push"
  /\ spc' = "go"
  /\ UNCHANGED <<serverVars, logVars, loggerVars, reqVars, workerVars, lock, q, pushed, jobs,
                 mpc, faultsLeft, crashed>>

\* a startup sequence that starts two workers
SpawnedWorkers_Two == {1, 2}

\* the worker goroutines the startup sequence starts (handler.go:163)
SpawnedWorkers == {1}

\* handler.go:163: go s.dequeue()
StartupGo ==
  /\ ~crashed /\ spc = "go"
  /\ spc' = "done"
  /\ wpc' = [w \in Workers |-> IF w \in SpawnedWorkers THEN "recv" ELSE wpc[w]]
  /\ UNCHANGED <<serverVars, logVars, loggerVars, reqVars, wjob, wti, woi, werr, wtried, wmade, wfailed, wrelease,
                 lock, q, pushed, jobs, mpc, faultsLeft, crashed>>

\* ------------------------------------------------------------- enqueue
RECURSIVE FlatFrom(_, _)
\* handler.go:279-285 for the OS keys in the order oss: the enabled cells of
\* each OS in any order (Go iterates a map in an unspecified order)
FlatFrom(P, oss) ==
  IF oss = <<>> THEN {<<>>}
  ELSE LET os == Head(oss)
           enabled == {a \in DOMAIN P[os] : P[os][a]}
           lists == {[i \in 1..Len(s) |-> JoinOSArch(os, s[i])] : s \in Orders(enabled)}
       IN {a \o r : a \in lists, r \in FlatFrom(P, Tail(oss))}

\* the OSArch lists handler.go:277-286 can produce from a request
Flattenings(r) ==
  IF r.Platforms.isNil THEN {r.OSArch}
  ELSE UNION {FlatFrom(r.Platforms.cells, oss) : oss \in Orders(DOMAIN r.Platforms.cells)}

\* the check of handler.go:290 letting a full queue pass
QueueFull_Off(qlen) == qlen > maxQueue

\* handler.go:290
QueueFull(qlen) == qlen = maxQueue

\* the admission checks with the version tested before the package
enqueueChecks_VersionFirst(r, flat, qlen) ==
  IF r.Version = "" THEN [c |-> r, err |-> "Missing version"]
  ELSE IF r.Package = <<>> THEN [c |-> r, err |-> "Missing package"]
  ELSE LET c1 == [r EXCEPT !.OSArch = flat] IN
       IF Len(c1.OSArch) = 0 THEN [c |-> c1, err |-> "Requires at least one OS/Arch"]
       ELSE IF QueueFull(qlen) THEN [c |-> c1, err |-> "Queue is full"]
       ELSE [c |-> c1, err |-> ""]

\* handler.go:259-292: the admission checks on request r, flat being the
\* flattened platform list and qlen the value len(s.q) returns
enqueueChecks(r, flat, qlen) ==
  IF r.Package = <<>> THEN [c |-> r, err |-> "Missing package"]
  ELSE IF r.Version = "" THEN [c |-> r, err |-> "Missing version"]
  ELSE LET c1 == [r EXCEPT !.OSArch = flat] IN
       IF Len(c1.OSArch) = 0 THEN [c |-> c1, err |-> "Requires at least one OS/Arch"]
       ELSE IF QueueFull(qlen) THEN [c |-> c1, err |-> "Queue is full"]
       ELSE [c |-> c1, err |-> ""]

\* handler.go:239-249: the Compilation enqueueReq passes to enqueue has its
\* Releaser cleared; the hook route passes its own
Decoded(r) == IF r.Route = "compile" THEN [r EXCEPT !.Releaser = ""] ELSE r

\* handler.go:231-292: a request arrives, its body is decoded and enqueue runs
\* its checks; a failed check returns the error to the client
EnqueueCheck(j) ==
  /\ ~crashed /\ mpc = "serving" /\ rpc[j] = "new"
  /\ j <= Len(inbox)
  /\ IF j = 1 THEN TRUE ELSE rpc[j - 1] # "new"
  /\ \E flat \in Flattenings(inbox[j]) :
       LET res == enqueueChecks(Decoded(inbox[j]), flat, Len(q)) IN
       /\ jobs' = [jobs EXCEPT ![j] = res.c]
       /\ IF res.err = ""
          THEN rpc' = [rpc EXCEPT ![j] = "lock"] /\ UNCHANGED result
          ELSE rpc' = [rpc EXCEPT ![j] = "returned"]
               /\ result' = [result EXCEPT ![j] = res.err]
  /\ UNCHANGED <<serverVars, logVars, loggerVars, inbox, workerVars, lock, q, pushed, mpc, spc,
                 faultsLeft, crashed>>

\* handler.go:299: s.state.Lock()
EnqueueLock(j) ==
  /\ ~crashed /\ rpc[j] = "lock" /\ lock = NoOne
  /\ lock' = ReqProc(j)
  /\ rpc' = [rpc EXCEPT ![j] = "total"]
  /\ UNCHANGED <<serverVars, logVars, loggerVars, inbox, result, workerVars, q, pushed, jobs,
                 mpc, spc, faultsLeft, crashed>>

\* a counter step that does not count
NextTotal_Same(n) == n

\* handler.go:300: s.state.NumTotal++
NextTotal(n) == n + 1

\* the random tokens the jobs hold
IssuedTokens == {jobs[k].ID : k \in {i \in Jobs : jobs[i].ID[1] = "hex"}}

\* handler.go:31-38: six random bytes in hex (a token no job holds yet, or by
\* chance one that a job holds), or the constant when the random source fails
randomID(fresh, mayFail) ==
  {fresh} \cup (IF mayFail THEN {FallbackID} \cup IssuedTokens ELSE {})

\* handler.go:300-301: NumTotal++; c.ID = randomID()
EnqueueTotal(j) ==
  /\ ~crashed /\ rpc[j] = "total"
  /\ NumTotal' = NextTotal(NumTotal)
  /\ \E id \in randomID(Token(NumTotal + 1), faultsLeft > 0) :
       /\ jobs' = [jobs EXCEPT ![j].ID = id]
       /\ faultsLeft' = IF id = Token(NumTotal + 1) THEN faultsLeft ELSE faultsLeft - 1
  /\ rpc' = [rpc EXCEPT ![j] = "printf"]
  /\ UNCHANGED <<Ready, NumQueued, NumDone, Compilations, logVars, loggerVars, inbox,
                 result, workerVars, lock, q, pushed, mpc, spc, crashed>>

\* handler.go:302: s.Printf("enqueue compilation ...") with the lock held
EnqueuePrintf(j) ==
  /\ ~crashed /\ rpc[j] = "printf"
  /\ Printf
  /\ rpc' = [rpc EXCEPT ![j] = "unlock"]
  /\ UNCHANGED <<serverVars, logVars, inbox, result, workerVars, lock, q, pushed, jobs, mpc, spc,
                 faultsLeft, crashed>>

\* handler.go:303-311: Unlock; reset the server's fields; default the targets
EnqueueUnlock(j) ==
  /\ ~crashed /\ rpc[j] = "unlock"
  /\ lock' = Unlock(ReqProc(j))
  /\ jobs' = [jobs EXCEPT ![j] =
                [@ EXCEPT !.Completed = FALSE, !.Queued = TRUE, !.Error = "",
                          !.Targets = IF Len(@) = 0 THEN <<".">> ELSE @]]
  /\ rpc' = [rpc EXCEPT ![j] = "send"]
  /\ UNCHANGED <<serverVars, logVars, loggerVars, inbox, result, workerVars, q, pushed, mpc, spc,
                 faultsLeft, crashed>>

\* handler.go:313: s.q <- c, which waits while the channel is full
EnqueueSend(j) ==
  /\ ~crashed /\ rpc[j] = "send"
  /\ Len(q) < maxQueue
  /\ q' = Append(q, j)
  /\ pushed' = Append(pushed, j)
  /\ rpc' = [rpc EXCEPT ![j] = "lock2"]
  /\ UNCHANGED <<serverVars, logVars, loggerVars, inbox, result, workerVars, lock, jobs,
                 mpc, spc, faultsLeft, crashed>>

\* a count that ignores the channel
QueueLength_Zero(queue) == 0

\* handler.go:315,328: len(s.q)
QueueLength(queue) == Len(queue)

\* handler.go:314: s.state.Lock()
EnqueueLock2(j) ==
  /\ ~crashed /\ rpc[j] = "lock2" /\ lock = NoOne
  /\ lock' = ReqProc(j)
  /\ rpc' = [rpc EXCEPT ![j] = "count"]
  /\ UNCHANGED <<serverVars, logVars, loggerVars, inbox, result, workerVars, q, pushed, jobs,
                 mpc, spc, faultsLeft, crashed>>

\* handler.go:315-316: NumQueued = len(s.q); Unlock
EnqueueCount(j) ==
  /\ ~crashed /\ rpc[j] = "count"
  /\ NumQueued' = QueueLength(q)
  /\ lock' = Unlock(ReqProc(j))
  /\ rpc' = [rpc EXCEPT ![j] = "push"]
  /\ UNCHANGED <<Ready, NumDone, NumTotal, Compilations, logVars, loggerVars, inbox,
                 result, workerVars, q, pushed, jobs, mpc, spc, faultsLeft, crashed>>

\* handler.go:317-318: s.state.Push(); return nil
EnqueuePush(j) ==
  /\ ~crashed /\ rpc[j] = "push"
  /\ rpc' = [rpc EXCEPT ![j] = "returned"]
  /\ result' = [result EXCEPT ![j] = "ok"]
  /\ UNCHANGED <<serverVars, logVars, loggerVars, inbox, workerVars, lock, q, pushed, jobs, mpc,
                 spc, faultsLeft, crashed>>

\* ------------------------------------------------------------- dequeue
\* handler.go:323: for c := range s.q
WorkerRecv(w) ==
  /\ ~crashed /\ wpc[w] = "recv"
  /\ q # <<>>
  /\ wjob' = [wjob EXCEPT ![w] = Head(q)]
  /\ q' = Tail(q)
  /\ UNCHANGED pushed
  /\ wpc' = [wpc EXCEPT ![w] = "lock1"]
  /\ UNCHANGED <<serverVars, logVars, loggerVars, reqVars, wti, woi, werr, wtried, wmade, wfailed, wrelease,
                 lock, jobs, mpc, spc, faultsLeft, crashed>>

\* handler.go:324: s.state.Lock()
WorkerLock1(w) ==
  /\ ~crashed /\ wpc[w] = "lock1" /\ lock = NoOne
  /\ lock' = WorkerProc(w)
  /\ wpc' = [wpc EXCEPT ![w] = "dequeue"]
  /\ UNCHANGED <<serverVars, logVars, loggerVars, reqVars, wjob, wti, woi, werr, wtried, wmade, wfailed, wrelease,
                 q, pushed, jobs, mpc, spc, faultsLeft, crashed>>

\* a history that grows at its end
Prepend_AtEnd(c, history) == history \o <<c>>

\* handler.go:325: append([]*Compilation{c}, s.state.Compilations...)
Prepend(c, history) == <<c>> \o history

\* handler.go:325-329: prepend to the history; Queued = false; Ready = false;
\* NumQueued = len(s.q); Unlock
WorkerDequeue(w) ==
  /\ ~crashed /\ wpc[w] = "dequeue"
  /\ Compilations' = Prepend(wjob[w], Compilations)
  /\ jobs' = [jobs EXCEPT ![wjob[w]].Queued = FALSE]
  /\ Ready' = FALSE
  /\ NumQueued' = QueueLength(q)
  /\ lock' = Unlock(WorkerProc(w))
  /\ wpc' = [wpc EXCEPT ![w] = "push1"]
  /\ UNCHANGED <<NumDone, NumTotal, logVars, loggerVars, reqVars, wjob, wti, woi, werr,
                 wtried, wmade, wfailed, wrelease, q, pushed, mpc, spc, faultsLeft, crashed>>

\* handler.go:330: s.state.Push()
WorkerPush1(w) ==
  /\ ~crashed /\ wpc[w] = "push1"
  /\ wpc' = [wpc EXCEPT ![w] = "compile"]
  /\ UNCHANGED <<serverVars, logVars, loggerVars, reqVars, wjob, wti, woi, werr, wtried, wmade, wfailed, wrelease,
                 lock, q, pushed, jobs, mpc, spc, faultsLeft, crashed>>

\* ------------------------------------------------------------- compile
\* Every stage of compile logs through s.Printf; the model sends one message
\* for each stage that logs, at the stage's first Printf.

\* what the environment can answer to one call: the outcome good, or one of
\* the failures while the run has failures left
Env(outcomes, good) ==
  {good} \cup (IF faultsLeft > 0 THEN outcomes \ {good} ELSE {})

\* handler_compile.go:28-29
CompileStart(w) ==
  /\ ~crashed /\ wpc[w] = "compile"
  /\ Printf
  /\ wpc' = [wpc EXCEPT ![w] = "setup"]
  /\ werr' = [werr EXCEPT ![w] = ""]
  /\ wtried' = [wtried EXCEPT ![w] = 0]
  /\ wmade' = [wmade EXCEPT ![w] = 0]
  /\ wfailed' = [wfailed EXCEPT ![w] = 0]
  /\ wrelease' = [wrelease EXCEPT ![w] = NoRelease]
  /\ UNCHANGED <<serverVars, logVars, reqVars, wjob, wti, woi, lock, q, pushed, jobs, mpc, spc,
                 faultsLeft, crashed>>

\* what the file system and the go tool can answer in handler_compile.go:49-79
SetupOutcomes ==
  {"ok", "Failed to create build directory", "failed to find package"}

\* handler_compile.go:47-85: the build directories (a failure returns before
\* anything is logged), then the package is fetched or copied
CompileSetup(w) ==
  /\ ~crashed /\ wpc[w] = "setup"
  /\ \E out \in Env(SetupOutcomes, "ok") :
       /\ IF out = "Failed to create build directory"
          THEN UNCHANGED loggerVars
          ELSE Printf
       /\ IF out = "ok"
          THEN wpc' = [wpc EXCEPT ![w] = "commit"] /\ UNCHANGED <<werr, faultsLeft>>
          ELSE /\ wpc' = [wpc EXCEPT ![w] = "finish"]
               /\ werr' = [werr EXCEPT ![w] = out]
               /\ faultsLeft' = faultsLeft - 1
  /\ UNCHANGED <<serverVars, logVars, reqVars, wjob, wti, woi, wtried, wmade, wfailed, wrelease, lock, q, pushed, jobs,
                 mpc, spc, crashed>>

\* what git can answer in handler_compile.go:90-95
CommitOutcomes == {"ok", "is not a git repo", "failed to load commit"}

\* a failed git status or git checkout that goes on to the matrix
CommitFailurePc_GoOn == "target"

\* handler_compile.go:91,94: a failed git status or git checkout returns the error
CommitFailurePc == "finish"

\* handler_compile.go:86-121: a requested commit is checked out; otherwise the
\* current commit is read on a best-effort basis
CompileCommit(w) ==
  /\ ~crashed /\ wpc[w] = "commit"
  /\ Printf
  /\ \E out \in (IF jobs[wjob[w]].Commitish # "" THEN Env(CommitOutcomes, "ok") ELSE {"ok"}) :
       IF out # "ok"
       THEN /\ wpc' = [wpc EXCEPT ![w] = CommitFailurePc]
            /\ werr' = [werr EXCEPT ![w] = out]
            /\ wti' = [wti EXCEPT ![w] = 1]
            /\ faultsLeft' = faultsLeft - 1
       ELSE /\ wpc' = [wpc EXCEPT ![w] = "target"]
            /\ wti' = [wti EXCEPT ![w] = 1]
            /\ UNCHANGED <<werr, faultsLeft>>
  /\ UNCHANGED <<serverVars, logVars, reqVars, wjob, woi, wtried, wmade, wfailed, wrelease, lock, q, pushed, jobs, mpc, spc,
                 crashed>>

\* handler_compile.go:123-139: the next target; its go get -d (sub-directories
\* of a fetched package only) or its go generate may fail, which skips the target
CompileTarget(w) ==
  /\ ~crashed /\ wpc[w] = "target"
  /\ LET c == jobs[wjob[w]] IN
     IF wti[w] > Len(c.Targets)
     THEN /\ wpc' = [wpc EXCEPT ![w] = "final"]
          /\ UNCHANGED <<wti, woi, loggerVars, faultsLeft>>
     ELSE \/ /\ (c.GoGet /\ c.Targets[wti[w]] # ".") \/ c.GoGenerate
             /\ faultsLeft > 0
             /\ faultsLeft' = faultsLeft - 1
             /\ Printf
             /\ wti' = [wti EXCEPT ![w] = @ + 1]
             /\ UNCHANGED <<wpc, woi>>
          \/ /\ wpc' = [wpc EXCEPT ![w] = "cell"]
             /\ woi' = [woi EXCEPT ![w] = 1]
             /\ UNCHANGED <<wti, loggerVars, faultsLeft>>
  /\ UNCHANGED <<serverVars, logVars, reqVars, wjob, werr, wtried, wmade, wfailed, wrelease, lock, q, pushed, jobs, mpc, spc,
                 crashed>>

\* filepath.Base of a slash-separated path: what follows the last separator
RECURSIVE Base(_)
Base(path) ==
  LET k == IndexOf(path, Slash, 1) IN
  IF k = 0 THEN path ELSE Base(SubSeq(path, k + 1, Len(path)))

\* handler_compile.go:124-126: filepath.Base(filepath.Join(c.Package, t))
TargetName(pkg, t) == IF t = "." THEN Base(pkg) ELSE <<t>>

\* handler_compile.go:145-148,190: name_os_arch, ".exe" on windows, then ".gz"
TargetFilename(pkg, t, parts) ==
  TargetName(pkg, t) \o <<"_">> \o parts[1] \o <<"_">> \o parts[2]
    \o (IF parts[1] = windows THEN <<".exe">> ELSE <<>>) \o <<".gz">>

\* what one cell can meet in handler_compile.go:150-212
CellSkips == {"failed to find target", "failed to build",
              "asset local remove failed", "asset local write failed"}
CellOutcomes == CellSkips \cup {"read failed", "compiled"}

\* the outcomes of a cell that got past the build and the read of the binary
\* (handler_compile.go:186-202 run for them)
PastRead == {"compiled", "asset local remove failed", "asset local write failed"}

\* a Once that calls its function on every Do
OnceDo_Always(done) == TRUE

\* handler_compile.go:33,194: once.Do(setupRelease) calls setupRelease when
\* no earlier Do did
OnceDo(done) == ~done

\* handler_compile.go:193-202: for a cell with outcome out of job c, rl being
\* compile's release state, what releaser.Setup and rel.Upload can answer
\* ("none": not called)
ReleaseOutcomes(c, rl, out) ==
  IF out \notin PastRead \/ c.Releaser \notin releasers
  THEN {[setup |-> "none", upload |-> "none"]}
  ELSE UNION {
         {[setup |-> so, upload |-> uo] :
            uo \in IF (IF so = "none" THEN rl.rel ELSE so = "ok")
                   THEN {"ok", "failed"} ELSE {"none"}} :
         so \in IF OnceDo(rl.once) THEN {"ok", "failed"} ELSE {"none"}}

\* the failures among the answers of one cell
Failures(out, ro) ==
  (IF out = "compiled" THEN 0 ELSE 1) + (IF ro.setup = "failed" THEN 1 ELSE 0)
    + (IF ro.upload = "failed" THEN 1 ELSE 0)

\* handler_compile.go:32-45,193-202: compile's release state after the cell
Released(rl, out, ro) ==
  [once |-> rl.once \/ ro.setup # "none",
   rel |-> IF ro.setup = "none" THEN rl.rel ELSE ro.setup = "ok",
   setups |-> rl.setups + (IF ro.setup = "none" THEN 0 ELSE 1),
   reached |-> rl.reached + (IF out \in PastRead THEN 1 ELSE 0),
   dropped |-> rl.dropped + (IF out \in PastRead \ {"compiled"} THEN 1 ELSE 0),
   failures |-> rl.failures + (IF ro.setup = "failed" THEN 1 ELSE 0)
                  + (IF ro.upload = "failed" THEN 1 ELSE 0)]

\* handler_compile.go:141-214: one target/OS/arch cell, up to its log message;
\* the environment answers the cell's calls with as many failures as it has left.
\* osarch[1] of an entry without "/" is out of range: the goroutine panics.
CompileCell(w) ==
  /\ ~crashed /\ wpc[w] = "cell"
  /\ LET c == jobs[wjob[w]] IN
     IF woi[w] > Len(c.OSArch)
     THEN /\ wpc' = [wpc EXCEPT ![w] = "target"]
          /\ wti' = [wti EXCEPT ![w] = @ + 1]
          /\ UNCHANGED <<woi, werr, wtried, wfailed, wrelease, loggerVars, faultsLeft, crashed>>
     ELSE IF Len(SplitN2(c.OSArch[woi[w]], Slash)) < 2
     THEN /\ crashed' = TRUE
          /\ UNCHANGED <<wpc, wti, woi, werr, wtried, wfailed, wrelease, loggerVars, faultsLeft>>
     ELSE \E out \in CellOutcomes :
          \E ro \in ReleaseOutcomes(c, wrelease[w], out) :
          /\ Failures(out, ro) <= faultsLeft
          /\ faultsLeft' = faultsLeft - Failures(out, ro)
          /\ wtried' = [wtried EXCEPT ![w] = @ + 1]
          /\ wfailed' = [wfailed EXCEPT ![w] = IF out = "failed to build" THEN @ + 1 ELSE @]
          /\ wrelease' = [wrelease EXCEPT ![w] = Released(@, out, ro)]
          /\ UNCHANGED <<wti, crashed>>
          /\ IF out = "read failed"
             THEN /\ wpc' = [wpc EXCEPT ![w] = "finish"]
                  /\ werr' = [werr EXCEPT ![w] = out]
                  /\ UNCHANGED <<woi, loggerVars>>
             ELSE /\ Printf
                  /\ UNCHANGED werr
                  /\ IF out = "compiled"
                     THEN wpc' = [wpc EXCEPT ![w] = "artifact"] /\ UNCHANGED woi
                     ELSE woi' = [woi EXCEPT ![w] = @ + 1] /\ UNCHANGED wpc
  /\ UNCHANGED <<serverVars, logVars, reqVars, wjob, wmade, lock, q, pushed, jobs, mpc, spc>>

\* handler_compile.go:215-216: the filename joins Files; s.state.Push()
CompileArtifact(w) ==
  /\ ~crashed /\ wpc[w] = "artifact"
  /\ LET c == jobs[wjob[w]]
         name == TargetFilename(c.Package, c.Targets[wti[w]],
                                SplitN2(c.OSArch[woi[w]], Slash))
     IN jobs' = [jobs EXCEPT ![wjob[w]].Files = Append(@, name)]
  /\ wmade' = [wmade EXCEPT ![w] = @ + 1]
  /\ woi' = [woi EXCEPT ![w] = @ + 1]
  /\ wpc' = [wpc EXCEPT ![w] = "cell"]
  /\ UNCHANGED <<serverVars, logVars, loggerVars, reqVars, wjob, wti, werr, wtried,
                 wfailed, wrelease, lock, q, pushed, mpc, spc, faultsLeft, crashed>>

\* handler_compile.go:220-231: the checkout is reverted (logged), and a job
\* without files fails
CompileFinal(w) ==
  /\ ~crashed /\ wpc[w] = "final"
  /\ LET c == jobs[wjob[w]] IN
     /\ IF c.Commitish # "" \/ Len(c.Files) # 0 THEN Printf ELSE UNCHANGED loggerVars
     /\ werr' = [werr EXCEPT ![w] = IF Len(c.Files) = 0 THEN "No files compiled" ELSE ""]
  /\ wpc' = [wpc EXCEPT ![w] = "finish"]
  /\ UNCHANGED <<serverVars, logVars, reqVars, wjob, wti, woi, wtried, wmade, wfailed, wrelease, lock, q, pushed, jobs, mpc,
                 spc, faultsLeft, crashed>>

\* handler.go:332-337: an error is logged and stored; Completed = true
WorkerFinish(w) ==
  /\ ~crashed /\ wpc[w] = "finish"
  /\ IF werr[w] # ""
     THEN /\ Printf
          /\ jobs' = [jobs EXCEPT ![wjob[w]] =
                        [@ EXCEPT !.Error = werr[w], !.Completed = TRUE]]
     ELSE /\ UNCHANGED loggerVars
          /\ jobs' = [jobs EXCEPT ![wjob[w]].Completed = TRUE]
  /\ wpc' = [wpc EXCEPT ![w] = "lock2"]
  /\ UNCHANGED <<serverVars, logVars, reqVars, wjob, wti, woi, werr, wtried, wmade, wfailed, wrelease, lock, q, pushed, mpc,
                 spc, faultsLeft, crashed>>

\* handler.go:338: s.state.Lock()
WorkerLock2(w) ==
  /\ ~crashed /\ wpc[w] = "lock2" /\ lock = NoOne
  /\ lock' = WorkerProc(w)
  /\ wpc' = [wpc EXCEPT ![w] = "done"]
  /\ UNCHANGED <<serverVars, logVars, loggerVars, reqVars, wjob, wti, woi, werr, wtried, wmade, wfailed, wrelease,
                 q, pushed, jobs, mpc, spc, faultsLeft, crashed>>

\* a counter step that counts a job twice
NextDone_Twice(n) == n + 2

\* handler.go:340: s.state.NumDone++
NextDone(n) == n + 1

\* handler.go:339-341: Ready = true; NumDone++; Unlock
WorkerDone(w) ==
  /\ ~crashed /\ wpc[w] = "done"
  /\ Ready' = TRUE
  /\ NumDone' = NextDone(NumDone)
  /\ lock' = Unlock(WorkerProc(w))
  /\ wpc' = [wpc EXCEPT ![w] = "push2"]
  /\ UNCHANGED <<NumQueued, NumTotal, Compilations, logVars, loggerVars, reqVars, wjob,
                 wti, woi, werr, wtried, wmade, wfailed, wrelease, q, pushed, jobs, mpc, spc, faultsLeft, crashed>>

\* handler.go:342-343: s.state.Push(), and back to the channel
WorkerPush2(w) ==
  /\ ~crashed /\ wpc[w] = "push2"
  /\ wpc' = [wpc EXCEPT ![w] = "recv"]
  /\ wjob' = [wjob EXCEPT ![w] = 0]
  /\ wti' = [wti EXCEPT ![w] = 0]
  /\ woi' = [woi EXCEPT ![w] = 0]
  /\ werr' = [werr EXCEPT ![w] = ""]
  /\ wtried' = [wtried EXCEPT ![w] = 0]
  /\ wmade' = [wmade EXCEPT ![w] = 0]
  /\ wfailed' = [wfailed EXCEPT ![w] = 0]
  /\ wrelease' = [wrelease EXCEPT ![w] = NoRelease]
  /\ UNCHANGED <<serverVars, logVars, loggerVars, reqVars, lock, q, pushed, jobs, mpc, spc,
                 faultsLeft, crashed>>

\* ------------------------------------------------------------- dequeueLogs
\* handler.go:347: for l := range s.logger.messages
DrainRecv ==
  /\ ~crashed /\ dpc = "recv"
  /\ messages # <<>>
  /\ dmsg' = Head(messages)
  /\ messages' = Tail(messages)
  /\ dpc' = "lock"
  /\ UNCHANGED <<serverVars, logVars, count, reqVars, workerVars, lock, q, pushed, jobs, mpc, spc,
                 faultsLeft, crashed>>

\* handler.go:349: s.state.Lock()
DrainLock ==
  /\ ~crashed /\ dpc = "lock" /\ lock = NoOne
  /\ lock' = DrainProc
  /\ dpc' = "insert"
  /\ UNCHANGED <<serverVars, logVars, count, messages, dmsg, reqVars, workerVars, q, pushed, jobs,
                 mpc, spc, faultsLeft, crashed>>

\* handler.go:351-352: s.state.Log[key] = l
DrainInsert ==
  /\ ~crashed /\ dpc = "insert"
  /\ Log' = (FormatInt(dmsg) :> dmsg) @@ Log
  /\ dpc' = "evict"
  /\ UNCHANGED <<serverVars, LogOffset, LogCount, processed, count, messages, dmsg,
                 reqVars, workerVars, lock, q, pushed, jobs, mpc, spc, faultsLeft, crashed>>

\* the test of handler.go:354 evicting one message late
RingFull_Late(n) == n > maxLogSize

\* handler.go:354
RingFull(n) == n = maxLogSize

\* handler.go:354-361: the entry at the offset is deleted when the ring is
\* full; Unlock
DrainEvict ==
  /\ ~crashed /\ dpc = "evict"
  /\ IF RingFull(LogCount)
     THEN /\ Log' = [k \in DOMAIN Log \ {FormatInt(LogOffset)} |-> Log[k]]
          /\ LogOffset' = LogOffset + 1
          /\ UNCHANGED LogCount
     ELSE /\ LogCount' = LogCount + 1
          /\ UNCHANGED <<Log, LogOffset>>
  /\ lock' = Unlock(DrainProc)
  /\ processed' = processed + 1
  /\ dpc' = "push"
  /\ UNCHANGED <<serverVars, count, messages, dmsg, reqVars, workerVars, q, pushed, jobs, mpc,
                 spc, faultsLeft, crashed>>

\* handler.go:362: s.state.Push()
DrainPush ==
  /\ ~crashed /\ dpc = "push"
  /\ dpc' = "recv"
  /\ dmsg' = 0
  /\ UNCHANGED <<serverVars, logVars, count, messages, reqVars, workerVars, lock, q, pushed, jobs,
                 mpc, spc, faultsLeft, crashed>>

\* ------------------------------------------------------------- the system
Next ==
  \/ NewPrintf \/ NewReturn
  \/ StartupReady \/ StartupPush \/ StartupGo
  \/ \E j \in Jobs :
       \/ EnqueueCheck(j) \/ EnqueueLock(j) \/ EnqueueTotal(j) \/ EnqueuePrintf(j)
       \/ EnqueueUnlock(j) \/ EnqueueSend(j) \/ EnqueueLock2(j) \/ EnqueueCount(j)
       \/ EnqueuePush(j)
  \/ \E w \in Workers :
       \/ WorkerRecv(w) \/ WorkerLock1(w) \/ WorkerDequeue(w) \/ WorkerPush1(w)
       \/ CompileStart(w) \/ CompileSetup(w) \/ CompileCommit(w) \/ CompileTarget(w)
       \/ CompileCell(w) \/ CompileArtifact(w) \/ CompileFinal(w)
       \/ WorkerFinish(w) \/ WorkerLock2(w) \/ WorkerDone(w) \/ WorkerPush2(w)
  \/ DrainRecv \/ DrainLock \/ DrainInsert \/ DrainEvict \/ DrainPush

Spec == Init /\ [][Next]_vars

\* ------------------------------------------------------------- vocabulary
\* request goroutine j is inside enqueue, past the admission checks
Admitting(j) == rpc[j] \in {"lock", "total", "printf", "unlock", "send", "lock2", "count", "push"}

\* enqueue accepted the job of request j (its checks passed)
Accepted(j) == Admitting(j) \/ result[j] = "ok"

\* request j has passed NumTotal++ (handler.go:300)
Counted(j) == rpc[j] \in {"printf", "unlock", "send", "lock2", "count", "push"} \/ result[j] = "ok"

\* the requests whose enqueue returned nil
Succeeded == {j \in Jobs : result[j] = "ok"}

\* a request that passes every check before the queue check
Valid(r) == r.Package # <<>> /\ r.Version # "" /\ \A f \in Flattenings(r) : Len(f) > 0

\* worker w is between dequeue's call of compile and compile's return
InPipeline(w) == wpc[w] \in {"compile", "setup", "commit", "target", "cell", "artifact", "final"}

\* worker w is between its locked update at handler.go:325-329 and its locked
\* update at handler.go:339-341
Building(w) == InPipeline(w) \/ wpc[w] \in {"push1", "finish", "lock2", "done"}

\* worker w holds a job it took off the queue and has not yet broadcast as done
Holding(w) == Building(w) \/ wpc[w] \in {"lock1", "dequeue", "push2"}

\* compile has returned in worker w and dequeue has stored its result
Finished(w) == wpc[w] \in {"lock2", "done", "push2"}

\* an entry of the form os/arch
IsOSArch(e) == LET p == SplitN2(e, Slash) IN Len(p) = 2 /\ p[1] # <<>> /\ p[2] # <<>>

\* the target/OS/arch cells of a job
Cells(c) == Len(c.Targets) * Len(c.OSArch)

CommitFailures == CommitOutcomes \ {"ok"}

\* ------------------------------------------------------------- C1
\* C1: an admission that reaches the push onto the bounded queue always finds
\* a free slot, so that enqueue never waits on the queue.
C1_SendFindsFreeSlot ==
  \A j \in Jobs : rpc[j] = "send" => Len(q) < maxQueue

\* ------------------------------------------------------------- C2
\* C2: when enqueue runs its checks on an otherwise valid job while the queue
\* holds maxQueue jobs, the call returns "Queue is full" and leaves NumTotal,
\* the queue and the job's identity as they were.
C2_FullQueueRejects ==
  [][\A j \in Jobs :
       (rpc[j] = "new" /\ rpc'[j] # "new" /\ Valid(inbox[j]) /\ Len(q) = maxQueue)
         => /\ rpc'[j] = "returned"
            /\ result'[j] = "Queue is full"
            /\ NumTotal' = NumTotal
            /\ q' = q
            /\ jobs'[j].ID = inbox[j].ID]_vars

\* a valid request was rejected by a full queue
C2_Witness ==
  \E j \in Jobs :
    /\ result[j] = "Queue is full" /\ Valid(inbox[j])
    /\ Len(q) = maxQueue /\ NumTotal = maxQueue

\* ------------------------------------------------------------- C3
\* C3 as stated: never two pipelines at once, and Ready is false from the
\* moment the worker takes a job off the queue until the completion broadcast.
C3_ReadyFalseFromRecvToBroadcast ==
  /\ Cardinality({w \in Workers : InPipeline(w)}) <= 1
  /\ \A w \in Workers : Holding(w) => ~Ready

\* C3: at most one worker holds a job at any time, and Ready is false from the
\* worker's locked update after taking the job (handler.go:327) until its
\* locked update after the pipeline returned (handler.go:339), the whole run
\* of the pipeline included.
C3_Serialized ==
  /\ Cardinality({w \in Workers : Holding(w)}) <= 1
  /\ \A w \in Workers : Building(w) => ~Ready

\* a pipeline is storing an artifact, with another job waiting in the queue
C3_Witness ==
  \E w \in Workers : wpc[w] = "artifact" /\ ~Ready /\ q # <<>>

\* ------------------------------------------------------------- C4
\* C4 as stated: once the calls have returned, NumTotal is the number of
\* successful calls, and the identities of those jobs are pairwise distinct.
C4_TotalAndDistinctIdentities ==
  /\ (\A j \in Jobs : ~Admitting(j)) => NumTotal = Cardinality(Succeeded)
  /\ \A i, j \in Succeeded : i # j => jobs[i].ID # jobs[j].ID

\* C4: NumTotal is the number of enqueue calls that passed the counter step,
\* and so the number of successful calls whenever no call is in progress.
C4_TotalCountsAdmissions ==
  /\ NumTotal = Cardinality({j \in Jobs : Counted(j)})
  /\ (\A j \in Jobs : ~Admitting(j)) => NumTotal = Cardinality(Succeeded)

\* two calls succeeded, none is in progress
C4_Witness ==
  /\ Cardinality(Succeeded) >= 2
  /\ \A j \in Jobs : ~Admitting(j)
  /\ NumTotal = Cardinality(Succeeded)

\* ------------------------------------------------------------- C5
\* C5: whenever the log drain does not hold the lock, the log buffer holds at
\* most maxLogSize messages; once the drain has processed k > maxLogSize
\* messages (identities 1..k), the keys are the decimal forms of
\* k-maxLogSize+1 .. k, LogCount is maxLogSize and LogOffset is the smallest
\* identity in the buffer.
C5_RingBuffer ==
  lock # DrainProc =>
    /\ Cardinality(DOMAIN Log) <= maxLogSize
    /\ processed > maxLogSize =>
         /\ DOMAIN Log = {FormatInt(i) : i \in (processed - maxLogSize + 1)..processed}
         /\ LogCount = maxLogSize
         /\ LogOffset = processed - maxLogSize + 1
         /\ \A i \in (processed - maxLogSize + 1)..processed : Log[FormatInt(i)] = i

\* the drain has evicted at least two entries
C5_Witness ==
  /\ lock # DrainProc
  /\ processed > maxLogSize + 1
  /\ LogOffset > 2

\* ------------------------------------------------------------- C6
\* C6: the OSArch list of every job enqueue accepts is non-empty and each of
\* its entries has the form os/arch.
C6_AcceptedPlatformsWellFormed ==
  \A j \in Jobs :
    Accepted(j) =>
      /\ Len(jobs[j].OSArch) > 0
      /\ \A i \in 1..Len(jobs[j].OSArch) : IsOSArch(jobs[j].OSArch[i])

\* ------------------------------------------------------------- C7
\* C7: a job whose pipeline stored no artifact ends with Completed = true and
\* a non-empty Error.
C7_NoArtifactMeansError ==
  \A w \in Workers :
    (Finished(w) /\ wmade[w] = 0) =>
      /\ jobs[wjob[w]].Completed
      /\ jobs[wjob[w]].Error # ""

\* ------------------------------------------------------------- C8
\* C8: a job of exactly two cells, one whose go build failed and one that
\* compiled, ends with an empty Error and exactly one filename in Files.
C8_OneOfTwoCells ==
  \A w \in Workers :
    (/\ Finished(w) /\ Cells(jobs[wjob[w]]) = 2
     /\ wtried[w] = 2 /\ wfailed[w] = 1 /\ wmade[w] = 1) =>
      /\ jobs[wjob[w]].Completed
      /\ jobs[wjob[w]].Error = ""
      /\ Len(jobs[wjob[w]].Files) = 1

\* ------------------------------------------------------------- C9
\* C9: when git status or git checkout of the requested commit fails, compile
\* returns that error at once: no cell is attempted, Files is as the request
\* left it, and the job ends with Completed = true and the error in Error.
C9_CommitFailureReturnsAtOnce ==
  \A w \in Workers :
    werr[w] \in CommitFailures =>
      /\ wpc[w] \in {"finish", "lock2", "done", "push2"}
      /\ wtried[w] = 0 /\ wmade[w] = 0
      /\ jobs[wjob[w]].Commitish # ""
      /\ jobs[wjob[w]].Files = inbox[wjob[w]].Files
      /\ Finished(w) => (jobs[wjob[w]].Completed /\ jobs[wjob[w]].Error = werr[w])

\* a job whose checkout failed has been broadcast as done
C9_Witness ==
  \E w \in Workers :
    /\ werr[w] = "failed to load commit" /\ wpc[w] = "push2"
    /\ jobs[wjob[w]].Completed /\ jobs[wjob[w]].Error # ""

\* ------------------------------------------------------------- C10
\* C10: a job whose enqueue succeeded is never left uncompleted in a state
\* where no goroutine can take a step, the process being alive and no pipeline
\* invocation pending (the least that "every admitted job is eventually
\* marked Completed under fair scheduling" requires).
C10_AdmittedJobNotStranded ==
  \A j \in Jobs :
    (/\ result[j] = "ok" /\ ~jobs[j].Completed
     /\ ~crashed /\ \A w \in Workers : ~InPipeline(w))
      => ENABLED Next

\* ------------------------------------------------------------- C11
\* the first admission check that request r fails when the queue holds qlen
\* jobs: "" when it passes them all
FirstFailure(r, qlen) ==
  IF r.Package = <<>> THEN "Missing package"
  ELSE IF r.Version = "" THEN "Missing version"
  ELSE IF \A f \in Flattenings(r) : Len(f) = 0 THEN "Requires at least one OS/Arch"
  ELSE IF qlen = maxQueue THEN "Queue is full"
  ELSE ""

\* C11: enqueue tests package, version, flattened OS/Arch list and queue, in
\* that order, and returns the reason of the first test that fails; a rejected
\* call pushes nothing and leaves NumTotal, NumQueued and the history alone,
\* and a call that passes every test goes on to the counter step.
C11_FirstFailingCheckDecides ==
  [][\A j \in Jobs :
       (rpc[j] = "new" /\ rpc'[j] # "new") =>
         LET why == FirstFailure(inbox[j], Len(q)) IN
         IF why = ""
         THEN rpc'[j] = "lock" /\ result'[j] = "pending"
         ELSE /\ rpc'[j] = "returned" /\ result'[j] = why
              /\ q' = q /\ NumTotal' = NumTotal /\ NumQueued' = NumQueued
              /\ Compilations' = Compilations]_vars

\* a request failing two checks got the reason of the earlier one, and a
\* request failing the version check only got that reason
C11_Witness ==
  \E i, j \in Jobs :
    /\ result[i] = "Missing package" /\ inbox[i].Version = ""
    /\ result[j] = "Missing version" /\ inbox[j].Package # <<>>
    /\ \A k \in 1..Len(q) : q[k] \notin {i, j}

\* ------------------------------------------------------------- C12
\* C12: a failure after a successful go build (reading the binary, removing
\* it, writing the compressed file) only drops the cell: compile never returns
\* because of it, and the job's Error never is that failure.
C12_PostBuildFailureDropsCell ==
  \A w \in Workers :
    /\ werr[w] # "read failed"
    /\ Holding(w) => jobs[wjob[w]].Error # "read failed"

StateFields == <<Ready, NumQueued, NumDone, NumTotal, Compilations, LogOffset, LogCount, Log>>

\* the goroutine that takes the step holds the state lock when it takes it
MoverHoldsLock ==
  \/ \E j \in Jobs : lock = ReqProc(j) /\ rpc'[j] # rpc[j]
  \/ \E w \in Workers : lock = WorkerProc(w) /\ wpc'[w] # wpc[w]
  \/ lock = DrainProc /\ dpc' # dpc
  \/ lock = StartupProc /\ spc' # spc

\* C14: every step that changes a field of the shared server state is taken
\* by a goroutine that holds the state lock.
C14_WritesUnderLock ==
  [][StateFields' # StateFields => MoverHoldsLock]_vars

\* ------------------------------------------------------------- C15
\* C15: a goroutine holds the state lock only between its Lock and its
\* Unlock, and the places where enqueue, the worker, the pipeline, the log
\* drain and the startup sequence call Push are not among them.
C15_PushOutsideLock ==
  /\ \A j \in Jobs :
       /\ lock = ReqProc(j) => rpc[j] \in {"total", "printf", "unlock", "count"}
       /\ rpc[j] = "push" => lock # ReqProc(j)
  /\ \A w \in Workers :
       /\ lock = WorkerProc(w) => wpc[w] \in {"dequeue", "done"}
       /\ wpc[w] \in {"push1", "artifact", "push2"} => lock # WorkerProc(w)
  /\ lock = DrainProc => dpc \in {"insert", "evict"}
  /\ dpc = "push" => lock # DrainProc
  /\ lock # StartupProc

\* enqueue, the pipeline and the log drain are each about to call Push
C15_Witness ==
  \E j \in Jobs, w \in Workers :
    rpc[j] = "push" /\ wpc[w] = "artifact" /\ dpc = "push"

\* ------------------------------------------------------------- C16
Reverse(s) == [i \in 1..Len(s) |-> s[Len(s) - i + 1]]

\* the workers that have received a job and not yet recorded it
Received == {w \in Workers : wpc[w] \in {"lock1", "dequeue"}}

\* the job received from the queue and not yet in the history
InHand == IF Received = {} THEN <<>> ELSE <<wjob[CHOOSE w \in Received : TRUE]>>

\* worker w runs its job: recorded in the history, Completed not yet set
Running(w) == InPipeline(w) \/ wpc[w] \in {"push1", "finish"}

\* C16: the jobs pushed onto the queue are, in the order of their push, the
\* history read from its end, then the job just received, then the queue
\* (jobs are dequeued in push order, recorded newest first, each once); a job
\* in the queue has Queued = true and Completed = false; the dequeue step
\* runs under the lock; the running job is first in the history with
\* Queued = false, Completed = false and Ready = false; and every other job
\* of the history has Queued = false and Completed = true.
C16_Lifecycle ==
  /\ pushed = Reverse(Compilations) \o InHand \o q
  /\ \A a, b \in 1..Len(pushed) : pushed[a] = pushed[b] => a = b
  /\ \A k \in 1..Len(q) : jobs[q[k]].Queued /\ ~jobs[q[k]].Completed
  /\ \A w \in Workers :
       /\ wpc[w] = "dequeue" => lock = WorkerProc(w)
       /\ Running(w) =>
            /\ Compilations # <<>> /\ Compilations[1] = wjob[w]
            /\ ~jobs[wjob[w]].Queued /\ ~jobs[wjob[w]].Completed /\ ~Ready
  /\ \A k \in 1..Len(Compilations) :
       /\ ~jobs[Compilations[k]].Queued
       /\ \/ jobs[Compilations[k]].Completed
          \/ k = 1 /\ \E w \in Workers : Running(w) /\ wjob[w] = Compilations[k]

\* one job done, the next running, a third waiting in the queue
C16_Witness ==
  /\ Len(Compilations) = 2 /\ q # <<>>
  /\ jobs[Compilations[2]].Completed
  /\ \E w \in Workers : InPipeline(w) /\ wjob[w] = Compilations[1]

\* ------------------------------------------------------------- C17
\* an enqueue call or a worker dequeue step is between its queue operation
\* and its update of NumQueued
CountPending ==
  \/ \E j \in Jobs : rpc[j] \in {"lock2", "count"}
  \/ \E w \in Workers : wpc[w] \in {"lock1", "dequeue"}

\* C17: whenever no enqueue call and no dequeue step is between its queue
\* operation and its NumQueued update, NumQueued is the length of the queue.
C17_NumQueuedAccurate ==
  ~CountPending => NumQueued = Len(q)

\* NumQueued was written by an enqueue and by the worker and is now 2, with
\* a job running and nobody about to update it
C17_Witness ==
  /\ ~CountPending /\ NumQueued = 2 /\ Len(q) = 2
  /\ \E w \in Workers : InPipeline(w)

\* ------------------------------------------------------------- C18
\* a Printf cannot hand over its message: the drain is not at its receive
\* with the channel empty, and the channel is full
PrintfBlocked ==
  ~(dpc = "recv" /\ messages = <<>>) /\ Len(messages) >= LogChanCap

\* C18: no admission holding the state lock waits to write its log message
\* while the log drain, holding a received message, waits for the lock.
C18_NoLockedWriterFacesWaitingDrain ==
  ~ \E j \in Jobs :
      /\ lock = ReqProc(j) /\ rpc[j] = "printf" /\ PrintfBlocked
      /\ dpc = "lock" /\ dmsg # 0

\* ------------------------------------------------------------- C19
\* the jobs recorded in the history and not yet counted as done
RunningJobs == Cardinality({w \in Workers : Building(w)})

\* C19 as stated: NumDone <= NumTotal, NumQueued <= maxQueue, the history has
\* NumDone plus the running jobs when the lock is free, and NumTotal is
\* NumDone plus running plus pending jobs when no admission is in progress.
C19_CountersAsStated ==
  /\ NumDone <= NumTotal /\ NumQueued <= maxQueue
  /\ RunningJobs <= 1
  /\ lock = NoOne => Len(Compilations) = NumDone + RunningJobs
  /\ (\A j \in Jobs : ~Admitting(j)) => NumTotal = NumDone + RunningJobs + Len(q)

\* C19: as above, with the job the worker has received from the queue and not
\* yet recorded in the history counted in the last equation.
C19_Counters ==
  /\ NumDone <= NumTotal /\ NumQueued <= maxQueue
  /\ RunningJobs <= 1
  /\ lock = NoOne => Len(Compilations) = NumDone + RunningJobs
  /\ (\A j \in Jobs : ~Admitting(j)) =>
       NumTotal = NumDone + RunningJobs + Len(InHand) + Len(q)

\* one job done, one running, one pending, no admission in progress
C19_Witness ==
  /\ lock = NoOne /\ \A j \in Jobs : ~Admitting(j)
  /\ NumDone = 1 /\ RunningJobs = 1 /\ Len(q) = 1 /\ NumTotal = 3

\* ------------------------------------------------------------- C20
\* C20: when the pipeline starts, the job's Files list is empty, and when it
\* has returned Files holds one filename for each cell this run stored.
C20_FilesOnlyOfThisRun ==
  \A w \in Workers :
    /\ wpc[w] = "compile" => jobs[wjob[w]].Files = <<>>
    /\ Finished(w) => Len(jobs[wjob[w]].Files) = wmade[w]

====
